---- MODULE Spec2Model ----
(***************************************************************************)
(* Model of scripts/manage-project.ts: the command-line options, the       *)
(* validation, the version identifier, and the run                         *)
(*   [fork] -> clean -> upload OpenAPI -> build tables -> update tables    *)
(*          -> upload guides -> upload reference docs (retry loop)         *)
(* against the documentation host (versions, categories, specifications)   *)
(* and the child processes (rdme, npm) the script starts.                  *)
(* Spec is one run of the script (or one direct call of the retry          *)
(* function); SpecAgain runs the script again after a failed run, and      *)
(* calls cleanProject a second time, on a host that then behaves.          *)
(*                                                                         *)
(* Texts (stdout, stderr, error messages) are sequences of chunks, and     *)
(* String.prototype.includes is a search for a contiguous run of chunks.   *)
(* JavaScript's undefined is the value `undefined' below; a boolean flag   *)
(* that was not given is FALSE (minimist leaves it undefined: falsy).      *)
(***************************************************************************)
EXTENDS Integers, Sequences, FiniteSets, TLC

\* ------------------------------------------------------------------ bounds

\* Remote requests of one run that the host may answer with an error status.
MaxFaults == 1
\* Largest attempt budget uploadReferenceDocsWithMaxNumberOfAttempts is
\* called with directly (the run itself uses the default budget).
MaxBudget == 3

\* --------------------------------------------------------- program constants

mainVersion == "v2018-08-01"

listOfGuideCategories ==
  << "Getting started", "Development", "Building blocks", "Campaigns Recipes",
     "Discounts Recipes", "Distributions Recipes", "More" >>

listOfReferenceCategories == << "Introduction" >>

\* default of maxNumberOfUploadingAttempts
defaultMaxNumberOfUploadingAttempts == 6

\* perPage of the two listing requests
perPage == 100

\* ---------------------------------------------------------------- JS values

undefined == "<undefined>"

\* a string value in a condition: undefined and "" are falsy
Truthy(x) == x # undefined /\ x # ""

\* a || b on string values
Or(a, b) == IF Truthy(a) THEN a ELSE b

\* `${x}`
TemplateString(x) == IF x = undefined THEN "undefined" ELSE x

\* error === null
null == << >>

RECURSIVE IncludesFrom(_, _, _)
IncludesFrom(hay, needle, i) ==
  IF i + Len(needle) - 1 > Len(hay) THEN FALSE
  ELSE IF SubSeq(hay, i, i + Len(needle) - 1) = needle THEN TRUE
  ELSE IncludesFrom(hay, needle, i + 1)

\* hay.includes(needle)
Includes(hay, needle) == IncludesFrom(hay, needle, 1)

SeqToSet(s) == { s[k] : k \in 1..Len(s) }

\* ------------------------------------------------------------------ options

\* const versionTag = options.versionTag || options.vt
versionTagOf(options) == Or(options.versionTag, options.vt)

\* const versionOption = options.version || options.v
versionOptionOf(options) == Or(options.version, options.v)

\* const help = options.help || options.h
helpOf(options) == options.help \/ options.h

\* versionOf with the version flag left out of the condition
versionOf_TagOnly(options) ==
  IF Truthy(versionTagOf(options))
  THEN mainVersion \o "-" \o TemplateString(versionTagOf(options))
  ELSE undefined

\* const version = versionOption || versionTag ? `${mainVersion}-${versionTag}` : undefined
\* (the conditional binds weaker than ||)
versionOf(options) ==
  IF Truthy(Or(versionOptionOf(options), versionTagOf(options)))
  THEN mainVersion \o "-" \o TemplateString(versionTagOf(options))
  ELSE undefined

\* validateOptions without its check for conflicting arguments
validateOptions_NoConflictCheck(help, version, create, update) ==
  IF help \/ (~Truthy(version) /\ ~create /\ ~update)
    THEN [valid |-> FALSE, message |-> "usage"]
  ELSE IF ~Truthy(version)
    THEN [valid |-> FALSE, message |-> "missing version"]
  ELSE IF ~create /\ ~update
    THEN [valid |-> FALSE, message |-> "missing update or create"]
  ELSE [valid |-> TRUE, message |-> "none"]

\* validateOptions without its check for a missing version
validateOptions_NoVersionCheck(help, version, create, update) ==
  IF help \/ (~Truthy(version) /\ ~create /\ ~update)
    THEN [valid |-> FALSE, message |-> "usage"]
  ELSE IF ~create /\ ~update
    THEN [valid |-> FALSE, message |-> "missing update or create"]
  ELSE IF create /\ update
    THEN [valid |-> FALSE, message |-> "conflicting update and create"]
  ELSE [valid |-> TRUE, message |-> "none"]

\* validateOptions without the help flag in its first condition
validateOptions_NoHelpCheck(help, version, create, update) ==
  IF ~Truthy(version) /\ ~create /\ ~update
    THEN [valid |-> FALSE, message |-> "usage"]
  ELSE IF ~Truthy(version)
    THEN [valid |-> FALSE, message |-> "missing version"]
  ELSE IF ~create /\ ~update
    THEN [valid |-> FALSE, message |-> "missing update or create"]
  ELSE IF create /\ update
    THEN [valid |-> FALSE, message |-> "conflicting update and create"]
  ELSE [valid |-> TRUE, message |-> "none"]

\* The branch validateOptions takes: what it prints and what it returns.
validateOptions(help, version, create, update) ==
  IF help \/ (~Truthy(version) /\ ~create /\ ~update)
    THEN [valid |-> FALSE, message |-> "usage"]
  ELSE IF ~Truthy(version)
    THEN [valid |-> FALSE, message |-> "missing version"]
  ELSE IF ~create /\ ~update
    THEN [valid |-> FALSE, message |-> "missing update or create"]
  ELSE IF create /\ update
    THEN [valid |-> FALSE, message |-> "conflicting update and create"]
  ELSE [valid |-> TRUE, message |-> "none"]

\* -------------------------------------------------------------------- state

VARIABLES
  entry,          \* "main": the script runs; "retry", "clean": the function is called directly
  argv,           \* minimist(process.argv.slice(2))
  version,        \* the module-level const version
  pc,             \* where the run is
  console,        \* what was printed, in order
  error,          \* the error that ended the run, "none" while there is none
  calls,          \* the requests sent to the documentation host, in order
  processes,      \* the child processes started, in order
  started,        \* the steps of main that were started, in order
  finished,       \* the steps of main that returned normally, in order
  categories,     \* host: the version's categories, in display (creation) order
  specifications, \* host: the ids of the version's API specifications
  nextSlug,       \* host: the next fresh category slug
  inflight,       \* requests sent and not yet answered
  idx,            \* cleanProject: position of the creation loop
  exec,           \* the (error, stdout, stderr) of the exec callback that ran last, if one did
  maxNumberOfUploadingAttempts,
  i,              \* the retry loop's counter
  attempts,       \* the result of every updateReferenceDocs call, in order
  sleeps,         \* fixed-delay sleeps of the retry loop
  faults,         \* requests answered with an error status so far
  exists,         \* host: the version exists
  forkResponse,   \* how the fork request of this run was answered, "none" before
  run,            \* 1: the first run; 2: the same command run again
  afterFirst      \* the host's categories and specifications when the first run ended

vars ==
  << entry, argv, version, pc, console, error, calls, processes, started, finished,
     categories, specifications, nextSlug, inflight, idx, exec,
     maxNumberOfUploadingAttempts, i, attempts, sleeps, faults,
     exists, forkResponse, run, afterFirst >>

hostVars == << categories, specifications, nextSlug, faults >>
cleanVars == << inflight, idx >>
retryVars == << i, attempts, sleeps >>
\* what only the fork and a second run change
fixedVars ==
  << entry, argv, version, maxNumberOfUploadingAttempts, exists, forkResponse, run,
     afterFirst >>

\* main's parameters (the call at the end of the script)
help == helpOf(argv)
create == argv.create
update == argv.update

\* ------------------------------------------------------------------- inputs

VersionValues == { undefined, "v2018-08-01-piotr-123" }
TagValues == { undefined, "piotr-123" }

\* A flag is written in its long form, in its short form, or not at all.
ArgvSet ==
  { [version |-> vl[1], v |-> vl[2], versionTag |-> tg[1], vt |-> tg[2],
     help |-> hp[1], h |-> hp[2], create |-> c, update |-> u] :
      vl \in { <<a, b>> \in VersionValues \X VersionValues : a = undefined \/ b = undefined },
      tg \in { <<a, b>> \in TagValues \X TagValues : a = undefined \/ b = undefined },
      hp \in { <<a, b>> \in BOOLEAN \X BOOLEAN : ~a \/ ~b },
      c \in BOOLEAN, u \in BOOLEAN }

\* What the version holds on the host before the run (for --create: what the
\* fork copies from the base version).
InitialCategories ==
  { << >>,
    << [slug |-> 1, title |-> "Legacy", type |-> "reference"] >>,
    << [slug |-> 1, title |-> "Introduction", type |-> "guide"],
       [slug |-> 2, title |-> "More", type |-> "reference"] >> }

InitialSpecifications == { {}, {1, 2} }

\* The attempt budgets of the direct calls.
BudgetSet == (0 - 1)..MaxBudget

\* ------------------------------------------------------- texts of the tools

SuccessText == << "successfully", "created" >>

TimeoutText ==
  << "We're sorry, your upload request timed out.",
     "Please try again or split your file up into smaller chunks." >>

CategoryNotFoundText ==
  << "We couldn't save this doc",
     "(Unable to find a category with the slug 'voucherify-api')" >>

NoExec == [error |-> null, stdout |-> << >>, stderr |-> << >>]

ErrorTexts ==
  { null,
    << "Error: Command failed:" >> \o TimeoutText,
    << "Error: Command failed:", TimeoutText[1] >>,
    << "Error: Command failed:", "Bad Request" >> }

StdoutTexts ==
  { << >>,
    << "doc" >> \o SuccessText \o << "in ReadMe" >>,
    << "successfully", "validated" >> }

StderrTexts ==
  { << >>,
    << "Error uploading:" >> \o CategoryNotFoundText,
    << "Error uploading:", "Unauthorized" >> }

\* What the child processes can hand to their callbacks (each callback reads
\* some of error, stdout and stderr; what it does not read is left empty).
OpenApiOutcomes ==
  { [error |-> e, stdout |-> o, stderr |-> << >>] : e \in ErrorTexts, o \in StdoutTexts }

NpmOutcomes ==
  { [error |-> e, stdout |-> o, stderr |-> << >>] :
      e \in { null, << "Error: Command failed:", "npm ERR!" >> }, o \in StdoutTexts }

DocsOutcomes ==
  { [error |-> null, stdout |-> o, stderr |-> s] : o \in StdoutTexts, s \in StderrTexts }

\* A child process that did its work: no error, the success text on stdout.
GoodOutcome ==
  [error |-> null, stdout |-> << "doc" >> \o SuccessText \o << "in ReadMe" >>,
   stderr |-> << >>]

\* What a child process can hand to its callback in this run: in the run that
\* follows the first, the tools do their work.
ToolOutcomes(outcomes) == IF run = 1 THEN outcomes ELSE outcomes \cap { GoodOutcome }

\* --------------------------------------------------------------------- host

Min(a, b) == IF a <= b THEN a ELSE b

\* ?perPage=100&page=1
FirstPage(s) == SubSeq(s, 1, Min(Len(s), perPage))

\* POST /categories {title}: a new category, last in order, of the default kind
HostCreate(cats, slug, title) ==
  Append(cats, [slug |-> slug, title |-> title, type |-> "guide"])

\* DELETE /categories/{slug}
HostDelete(cats, slug) == SelectSeq(cats, LAMBDA c : c.slug # slug)

\* PUT /categories/{slug} {type}
HostUpdate(cats, slug, type) ==
  [k \in DOMAIN cats |->
     IF cats[k].slug = slug THEN [cats[k] EXCEPT !.type = type] ELSE cats[k]]

\* A request the script awaits: answered with success, answered with an error
\* status (fetch resolves, nothing changes on the host), or not answered at
\* all (fetch rejects).
Outcomes == { "ok", "status", "rejected" }

\* What the host answers in this run: anything in the first run; in the run
\* that follows it the host behaves, and every request succeeds.
HostAnswers == IF run = 1 THEN Outcomes ELSE { "ok" }

\* Whether a listing request (GET) is answered with the list.
ListingAnswers == IF run = 1 THEN BOOLEAN ELSE { TRUE }

\* A request: its method, the resource and the slug or id its URL names (0: none),
\* its x-readme-version header and what its body carries.
Call(method, resource, header, target, body) ==
  [method |-> method, resource |-> resource, version |-> header, target |-> target,
   body |-> body]

\* allCategories.find((category) => category.title === categoryTitle): its
\* position, 0 when there is none
RECURSIVE FindFrom(_, _, _)
FindFrom(list, title, k) ==
  IF k > Len(list) THEN 0
  ELSE IF list[k].title = title THEN k
  ELSE FindFrom(list, title, k + 1)

find(list, title) == FindFrom(list, title, 1)

\* [...listOfGuideCategories, ...listOfReferenceCategories]
categoriesToCreate == listOfGuideCategories \o listOfReferenceCategories

\* --------------------------------------------------------------------- Init

InitHost ==
  /\ categories \in InitialCategories
  /\ specifications \in InitialSpecifications
  /\ nextSlug = 3
  /\ faults = 0

NoSnapshot == [categories |-> << >>, specifications |-> {}]

InitRun ==
  /\ run = 1
  /\ afterFirst = NoSnapshot
  /\ forkResponse = "none"
  /\ console = << >>
  /\ error = "none"
  /\ calls = << >>
  /\ processes = << >>
  /\ started = << >>
  /\ finished = << >>
  /\ inflight = {}
  /\ idx = 1
  /\ exec = NoExec
  /\ i = 1
  /\ attempts = << >>
  /\ sleeps = 0

\* node scripts/manage-project.ts <flags>
InitMain ==
  /\ entry = "main"
  /\ argv \in ArgvSet
  /\ version = versionOf(argv)
  /\ maxNumberOfUploadingAttempts = defaultMaxNumberOfUploadingAttempts
  /\ pc = "start"
  /\ InitHost
  /\ exists \in (IF argv.create THEN BOOLEAN ELSE { TRUE })
  /\ InitRun

\* uploadReferenceDocsWithMaxNumberOfAttempts(version, n)
InitRetry ==
  /\ entry = "retry"
  /\ argv = [version |-> undefined, v |-> undefined, versionTag |-> "piotr-123",
             vt |-> undefined, help |-> FALSE, h |-> FALSE,
             create |-> FALSE, update |-> TRUE]
  /\ version = versionOf(argv)
  /\ maxNumberOfUploadingAttempts \in BudgetSet
  /\ pc = "upload_reference"
  /\ categories = << >>
  /\ specifications = {}
  /\ nextSlug = 3
  /\ faults = 0
  /\ exists = TRUE
  /\ InitRun

Init == InitMain \/ InitRetry

\* The flags with the version named by --versionTag, if it is named at all.
ArgvTag ==
  { a \in ArgvSet : a.version = undefined /\ a.v = undefined /\ a.vt = undefined }

\* The script with these flags, and the retry function called directly.
InitFair ==
  \/ InitMain /\ argv \in ArgvTag
  \/ InitRetry

\* The flags of a run that gets past validation: a tag, and create or update.
ArgvAgain ==
  { a \in ArgvSet :
      /\ a.versionTag = "piotr-123" /\ a.version = undefined /\ a.v = undefined
      /\ ~a.help /\ ~a.h
      /\ a.create # a.update }

\* node scripts/manage-project.ts <flags>, to be run again if it fails: with
\* --create the version does not exist yet, with --update it does
InitMainAgain ==
  /\ entry = "main"
  /\ argv \in ArgvAgain
  /\ version = versionOf(argv)
  /\ maxNumberOfUploadingAttempts = defaultMaxNumberOfUploadingAttempts
  /\ pc = "start"
  /\ InitHost
  /\ exists = ~argv.create
  /\ InitRun

\* cleanProject(version), to be called again when it has returned
InitClean ==
  /\ entry = "clean"
  /\ argv = [version |-> undefined, v |-> undefined, versionTag |-> "piotr-123",
             vt |-> undefined, help |-> FALSE, h |-> FALSE,
             create |-> FALSE, update |-> TRUE]
  /\ version = versionOf(argv)
  /\ maxNumberOfUploadingAttempts = defaultMaxNumberOfUploadingAttempts
  /\ pc = "clean"
  /\ InitHost
  /\ exists = TRUE
  /\ InitRun

InitAgain == InitMainAgain \/ InitClean

\* --------------------------------------------------------------------- main

\* The run ends on an error: a rejected promise nobody handles, or an
\* exception thrown in a child process's callback.
Fail(message) ==
  /\ pc' = "failed"
  /\ error' = message

\* main without its fork
FirstStep_NeverForks == "clean"

\* main forking whatever the flags
FirstStep_AlwaysForks == "fork"

\* main, lines 43-46: the fork comes first, and only with --create
FirstStep == IF create THEN "fork" ELSE "clean"

\* main, lines 39-46: validate, then go to the first step
Validate ==
  /\ pc = "start"
  /\ LET v == validateOptions(help, version, create, update) IN
       /\ console' = IF v.message = "none" THEN console ELSE Append(console, v.message)
       /\ pc' = IF v.valid THEN FirstStep ELSE "exit"
  /\ UNCHANGED << error, calls, processes, started, finished, exec >>
  /\ UNCHANGED << hostVars, cleanVars, retryVars, fixedVars >>

\* How the host can answer the fork: it forks a version that does not exist
\* yet (200), and it can refuse (another status) or not answer at all; a
\* version that exists it does not fork again ("maybe this versionTag is
\* already created?", line 264).
ForkAnswers == IF exists THEN (HostAnswers \ { "ok" }) \cup { "status" } ELSE HostAnswers

\* line 262 accepting every status
ForkSucceeded_AnyStatus(outcome) == outcome # "rejected"

\* line 262, negated: response.status === 200
ForkSucceeded(outcome) == outcome = "ok"

\* createNewVersion: POST /version; any status but 200 throws, and so does a
\* rejected fetch (the catch block throws again)
createNewVersion ==
  /\ pc = "fork"
  /\ started' = Append(started, "Fork")
  /\ calls' = Append(calls, Call("POST", "version", undefined, 0, TemplateString(version)))
  /\ \E outcome \in ForkAnswers :
       /\ forkResponse' = outcome
       /\ exists' = (exists \/ outcome = "ok")
       /\ IF ForkSucceeded(outcome)
          THEN /\ pc' = "clean"
               /\ console' = Append(console, "FORK CREATED")
               /\ finished' = Append(finished, "Fork")
               /\ UNCHANGED error
          ELSE /\ Fail(IF outcome = "rejected" THEN "fetch failed" ELSE "Response status")
               /\ console' = Append(console, "Error while creating fork")
               /\ UNCHANGED finished
  /\ UNCHANGED << processes, exec >>
  /\ UNCHANGED << hostVars, cleanVars, retryVars >>
  /\ UNCHANGED << entry, argv, version, maxNumberOfUploadingAttempts, run, afterFirst >>

\* ------------------------------------------------------------- cleanProject

DeleteCategoryRequests(list) ==
  [k \in 1..Len(list) |-> Call("DELETE", "categories", version, list[k].slug, "")]

\* lines 276-281: list the categories, send a delete for each of them
CleanStart ==
  /\ pc = "clean"
  /\ started' = Append(started, "Clean")
  /\ \E ok \in ListingAnswers :
       IF ok
       THEN LET categoriesToDelete == FirstPage(categories)
                requests == DeleteCategoryRequests(categoriesToDelete) IN
              /\ calls' = Append(calls, Call("GET", "categories", version, 0, "")) \o requests
              /\ inflight' = SeqToSet(requests)
              /\ pc' = "delete_categories"
              /\ UNCHANGED error
       ELSE /\ calls' = Append(calls, Call("GET", "categories", version, 0, ""))
            /\ Fail("categories were not listed")
            /\ UNCHANGED inflight
  /\ UNCHANGED << console, processes, finished, exec, idx >>
  /\ UNCHANGED << hostVars, retryVars, fixedVars >>

\* The answer to one request, were the response's status looked at: an error
\* status throws as well.
Answer_ChecksStatus(r, outcome, effect) ==
  /\ r \in inflight
  /\ inflight' = inflight \ {r}
  /\ CASE outcome = "ok" ->
            /\ categories' = effect
            /\ UNCHANGED << faults, pc, error >>
       [] outcome = "status" ->
            /\ faults < MaxFaults
            /\ faults' = faults + 1
            /\ Fail("Response status")
            /\ UNCHANGED categories
       [] outcome = "rejected" ->
            /\ Fail("fetch failed")
            /\ UNCHANGED << categories, faults >>

\* The answer to one request of a batch. A rejected fetch rejects Promise.all,
\* and with it cleanProject and main.
Answer(r, outcome, effect) ==
  /\ r \in inflight
  /\ inflight' = inflight \ {r}
  /\ CASE outcome = "ok" ->
            /\ categories' = effect
            /\ UNCHANGED << faults, pc, error >>
       [] outcome = "status" ->
            /\ faults < MaxFaults
            /\ faults' = faults + 1
            /\ UNCHANGED << categories, pc, error >>
       [] outcome = "rejected" ->
            /\ Fail("fetch failed")
            /\ UNCHANGED << categories, faults >>

\* deleteCategory's fetch is answered
DeleteCategoryAnswered ==
  /\ pc = "delete_categories"
  /\ \E r \in inflight, outcome \in HostAnswers :
       Answer(r, outcome, HostDelete(categories, r.target))
  /\ UNCHANGED << console, calls, processes, started, finished, exec, idx >>
  /\ UNCHANGED << specifications, nextSlug, retryVars, fixedVars >>

\* asyncMap returning without waiting for its requests
AllAnswered_Any == TRUE

\* asyncMap's Promise.all resolves: every request of the batch was answered
AllAnswered == inflight = {}

\* line 282: every delete was answered
CategoriesDeleted ==
  /\ pc = "delete_categories"
  /\ AllAnswered
  /\ console' = Append(console, "OLD CATEGORIES DELETED")
  /\ pc' = "create_categories"
  /\ idx' = 1
  /\ UNCHANGED << error, calls, processes, started, finished, exec, inflight >>
  /\ UNCHANGED << hostVars, retryVars, fixedVars >>

\* The creation loop without its await
CreationEnabled_NoWait == idx <= Len(categoriesToCreate)

\* The creation loop sends its next request (lines 284-289): one title per
\* turn, the next turn after the answer.
CreationEnabled == inflight = {} /\ idx <= Len(categoriesToCreate)

\* createCategory: POST /categories {title}
CreateCategoryRequest ==
  /\ pc = "create_categories"
  /\ CreationEnabled
  /\ LET r == Call("POST", "categories", version, 0, categoriesToCreate[idx]) IN
       /\ calls' = Append(calls, r)
       /\ inflight' = inflight \cup {r}
  /\ idx' = idx + 1
  /\ UNCHANGED << pc, console, error, processes, started, finished, exec >>
  /\ UNCHANGED << hostVars, retryVars, fixedVars >>

\* createCategory's fetch is answered
CreateCategoryAnswered ==
  /\ pc = "create_categories"
  /\ \E r \in inflight, outcome \in HostAnswers :
       /\ Answer(r, outcome, HostCreate(categories, nextSlug, r.body))
       /\ nextSlug' = IF outcome = "ok" THEN nextSlug + 1 ELSE nextSlug
  /\ UNCHANGED << console, calls, processes, started, finished, exec, idx >>
  /\ UNCHANGED << specifications, retryVars, fixedVars >>

\* The slugs the type update is sent to: for each reference title the first
\* category of allCategories with that title (0: there is none).
ReferenceSlugs(allCategories) ==
  [k \in 1..Len(listOfReferenceCategories) |->
     LET at == find(allCategories, listOfReferenceCategories[k]) IN
       IF at = 0 THEN 0 ELSE allCategories[at].slug]

\* .find(...).slug with a category that is not there passed over
AllFound_Always(slugs) == TRUE

\* line 298: .find(...) found a category for every title (.slug of undefined
\* throws)
AllFound(slugs) == \A k \in 1..Len(slugs) : slugs[k] # 0

UpdateCategoryRequests(slugs) ==
  [k \in 1..Len(slugs) |-> Call("PUT", "categories", version, slugs[k], "reference")]

\* lines 290-301: list the categories again, send the type update of every
\* reference category; .slug of a category that was not found throws
CategoriesCreated ==
  /\ pc = "create_categories"
  /\ inflight = {}
  /\ idx > Len(categoriesToCreate)
  /\ console' = Append(console, "NEW CATEGORIES CREATED")
  /\ \E ok \in ListingAnswers :
       IF ok
       THEN LET allCategories == FirstPage(categories)
                slugs == ReferenceSlugs(allCategories)
                found == SelectSeq(slugs, LAMBDA g : g # 0)
                requests == UpdateCategoryRequests(found) IN
              /\ calls' = Append(calls, Call("GET", "categories", version, 0, "")) \o requests
              /\ inflight' = SeqToSet(requests)
              /\ IF AllFound(slugs)
                 THEN pc' = "update_categories" /\ UNCHANGED error
                 ELSE Fail("TypeError: Cannot read properties of undefined")
       ELSE /\ calls' = Append(calls, Call("GET", "categories", version, 0, ""))
            /\ Fail("categories were not listed")
            /\ UNCHANGED inflight
  /\ UNCHANGED << processes, started, finished, exec, idx >>
  /\ UNCHANGED << hostVars, retryVars, fixedVars >>

\* updateCategory's fetch is answered
UpdateCategoryAnswered ==
  /\ pc = "update_categories"
  /\ \E r \in inflight, outcome \in HostAnswers :
       Answer(r, outcome, HostUpdate(categories, r.target, r.body))
  /\ UNCHANGED << console, calls, processes, started, finished, exec, idx >>
  /\ UNCHANGED << specifications, nextSlug, retryVars, fixedVars >>

\* What the host's listing holds for a specification: its bare id, or an
\* object that has the id among its fields. The script does not look into
\* the element: asyncMap hands it to deleteSpecification as the id.
ElementShapes == { "id", "object" }

\* `${id}` of an object is "[object Object]", which names no specification.
objectObject == 0 - 1

\* api-specification/${id} (line 376), id being the listed element
SpecificationPath(id, shape) == IF shape = "id" THEN id ELSE objectObject

\* Some order of a set of ids (the host lists the specifications in an order
\* of its own).
RECURSIVE InSomeOrder(_)
InSomeOrder(set) ==
  IF set = {} THEN << >>
  ELSE LET r == CHOOSE x \in set : \A y \in set : x <= y IN
         << r >> \o InSomeOrder(set \ {r})

\* asyncMap(allApiSpecifications, deleteSpecification): one request per
\* listed element
DeleteSpecificationRequests(ids, shape) ==
  [k \in 1..Len(ids) |->
     Call("DELETE", "api-specification", undefined, SpecificationPath(ids[k], shape), "")]

\* lines 302-304: every update was answered; list the specifications and send
\* a delete for each of them
CategoriesUpdated ==
  /\ pc = "update_categories"
  /\ AllAnswered
  /\ console' = Append(console, "REFERENCE CATEGORIES UPDATED")
  /\ \E ok \in ListingAnswers, shape \in ElementShapes :
       IF ok
       THEN LET allApiSpecifications == InSomeOrder(specifications)
                requests == DeleteSpecificationRequests(allApiSpecifications, shape) IN
              /\ calls' = Append(calls, Call("GET", "api-specification", version, 0, ""))
                            \o requests
              /\ inflight' = SeqToSet(requests)
              /\ pc' = "delete_specifications"
              /\ UNCHANGED error
       ELSE /\ calls' = Append(calls, Call("GET", "api-specification", version, 0, ""))
            /\ Fail("specifications were not listed")
            /\ UNCHANGED inflight
  /\ UNCHANGED << processes, started, finished, exec, idx >>
  /\ UNCHANGED << hostVars, retryVars, fixedVars >>

\* deleteSpecification's fetch is answered; a path that names no
\* specification of the host deletes none, whatever the answer
DeleteSpecificationAnswered ==
  /\ pc = "delete_specifications"
  /\ \E r \in inflight, outcome \in HostAnswers :
       /\ r \in inflight
       /\ inflight' = inflight \ {r}
       /\ CASE outcome = "ok" ->
                 /\ specifications' = specifications \ {r.target}
                 /\ UNCHANGED << faults, pc, error >>
            [] outcome = "status" ->
                 /\ faults < MaxFaults
                 /\ faults' = faults + 1
                 /\ UNCHANGED << specifications, pc, error >>
            [] outcome = "rejected" ->
                 /\ Fail("fetch failed")
                 /\ UNCHANGED << specifications, faults >>
  /\ UNCHANGED << console, calls, processes, started, finished, exec, idx >>
  /\ UNCHANGED << categories, nextSlug, retryVars, fixedVars >>

\* lines 305-307: every delete was answered, cleanProject returns
SpecificationsDeleted ==
  /\ pc = "delete_specifications"
  /\ AllAnswered
  /\ console' = console \o << "API SPECIFICATIONS DELETED", "VERSION IS CLEANED UP" >>
  /\ finished' = Append(finished, "Clean")
  /\ pc' = IF entry = "clean" THEN "cleaned" ELSE "upload_openapi"
  /\ UNCHANGED << error, calls, processes, started, exec, inflight, idx >>
  /\ UNCHANGED << hostVars, retryVars, fixedVars >>

\* ------------------------------------------------------- the child processes

\* uploadOpenApiFile's callback resolves (lines 157-167)
uploadOpenApiFileResolves(out) ==
  Includes(out.error, TimeoutText) \/ out.stdout # << >>

\* buildMdTables' and updateMdTablesInDocs' callbacks resolve: if (stdout)
mdTablesResolves(out) == out.stdout # << >>

\* uploadGuideFiles' callback resolving on any output, as the table steps do
uploadGuideFilesResolves_AnyOutput(out) == out.stdout # << >>

\* uploadGuideFiles' callback resolves (line 107)
uploadGuideFilesResolves(out) == Includes(out.stdout, SuccessText)

\* updateReferenceDocs without its test of stderr
updateReferenceDocs_IgnoresStderr(out) == Includes(out.stdout, SuccessText)

\* updateReferenceDocs taking any output for a success
updateReferenceDocs_AnyOutput(out) ==
  ~Includes(out.stderr, CategoryNotFoundText) /\ out.stdout # << >>

\* what updateReferenceDocs resolves to (lines 223-233)
updateReferenceDocs(out) ==
  IF Includes(out.stderr, CategoryNotFoundText) THEN FALSE
  ELSE IF Includes(out.stdout, SuccessText) THEN TRUE
  ELSE FALSE

\* A step of main that starts one child process and waits for its callback:
\* the callback resolves the promise (on the outcomes in `resolving'), or throws.
ExecStep(at, step, command, outcomes, resolving, said, next, message) ==
  /\ pc = at
  /\ started' = Append(started, step)
  /\ processes' = Append(processes, command)
  /\ \E out \in ToolOutcomes(outcomes) :
       /\ exec' = out
       /\ IF out \in resolving
          THEN /\ console' = Append(console, said)
               /\ finished' = Append(finished, step)
               /\ pc' = next
               /\ UNCHANGED error
          ELSE /\ Fail(message)
               /\ UNCHANGED << console, finished >>
  /\ UNCHANGED << calls, categories, nextSlug, faults >>
  /\ UNCHANGED << cleanVars, retryVars, fixedVars >>

\* An id the host has not given out.
FreshId(ids) == CHOOSE n \in 1..(Cardinality(ids) + 1) : n \notin ids

\* The host holds the uploaded document unless the tool was refused.
uploadOpenApiFile ==
  /\ ExecStep("upload_openapi", "UploadSpec", "rdme openapi", OpenApiOutcomes,
              { out \in OpenApiOutcomes : uploadOpenApiFileResolves(out) },
              "OPEN API FILE WAS UPLOADED", "build_tables",
              "OPEN API FILE WAS NOT UPLOADED")
  /\ specifications' =
       IF exec'.error = null \/ Includes(exec'.error, TimeoutText)
       THEN specifications \cup { FreshId(specifications) }
       ELSE specifications

buildMdTables ==
  /\ ExecStep("build_tables", "BuildTables", "npm run build-md-tables-from-openapi",
              NpmOutcomes, { out \in NpmOutcomes : mdTablesResolves(out) },
              "MD TABLES WERE BUILDED SUCCESSFULLY", "update_tables",
              "MD TABLES WERE NOT BUILDED!")
  /\ UNCHANGED specifications

updateMdTablesInDocs ==
  /\ ExecStep("update_tables", "UpdateTables", "npm run update-md-tables-in-doc",
              NpmOutcomes, { out \in NpmOutcomes : mdTablesResolves(out) },
              "MD TABLES WERE UPDATED IN DOCS SUCCESSFULLY", "upload_guides",
              "MD TABLES WERE NOT UPDATED IN DOCS!")
  /\ UNCHANGED specifications

uploadGuideFiles ==
  /\ ExecStep("upload_guides", "UploadGuides", "rdme docs ./docs/guides",
              DocsOutcomes, { out \in DocsOutcomes : uploadGuideFilesResolves(out) },
              "GUIDES DOC FILES WERE UPLOADED", "upload_reference",
              "GUIDES DOC WERE NOT UPLOADED!")
  /\ UNCHANGED specifications

\* ----------------------------- uploadReferenceDocsWithMaxNumberOfAttempts

\* The function returns to its caller: main prints DONE.
Return ==
  IF entry = "main"
  THEN /\ pc' = "done"
       /\ finished' = Append(finished, "UploadReferenceDocs")
  ELSE /\ pc' = "returned"
       /\ UNCHANGED finished

\* line 62, and the loop's initialisation
UploadReferenceStart ==
  /\ pc = "upload_reference"
  /\ console' = Append(console, "UPLOADING REFERENCE DOC FILES")
  /\ started' = IF entry = "main" THEN Append(started, "UploadReferenceDocs") ELSE started
  /\ i' = 1
  /\ exec' = NoExec
  /\ pc' = "retry_loop"
  /\ UNCHANGED << error, calls, processes, finished, attempts, sleeps >>
  /\ UNCHANGED << hostVars, cleanVars, fixedVars >>

\* line 69 giving up one attempt early
LastAttempt_OneEarly == i >= maxNumberOfUploadingAttempts - 1

\* line 69 comparing with the attempt after the last
LastAttempt_OneLate == i = maxNumberOfUploadingAttempts + 1

\* The loop without its bound
LoopContinues_Always == TRUE

\* The loop's condition (line 63).
LoopContinues == i <= maxNumberOfUploadingAttempts

\* The budget is used up (line 69).
LastAttempt == i = maxNumberOfUploadingAttempts

\* One turn of the loop up to its sleep (lines 63-71)
UploadReferenceAttempt ==
  /\ pc = "retry_loop"
  /\ LoopContinues
  /\ processes' = Append(processes, "rdme docs ./docs/reference-docs")
  /\ \E out \in ToolOutcomes(DocsOutcomes) :
       LET success == updateReferenceDocs(out) IN
         /\ exec' = out
         /\ attempts' = Append(attempts, success)
         /\ IF success
            THEN /\ Return
                 /\ console' =
                      IF entry = "main"
                      THEN console \o << "REFERENCE DOC FILES WERE UPLOADED", "DONE" >>
                      ELSE Append(console, "REFERENCE DOC FILES WERE UPLOADED")
                 /\ UNCHANGED error
            ELSE IF LastAttempt
            THEN /\ Fail("REFERENCE DOC WERE NOT UPLOADED!")
                 /\ UNCHANGED << console, finished >>
            ELSE /\ pc' = "sleep"
                 /\ UNCHANGED << console, finished, error >>
  /\ UNCHANGED << calls, started, i, sleeps >>
  /\ UNCHANGED << hostVars, cleanVars, fixedVars >>

\* line 72 and the loop's i++
Sleep ==
  /\ pc = "sleep"
  /\ sleeps' = sleeps + 1
  /\ i' = i + 1
  /\ exec' = NoExec
  /\ pc' = "retry_loop"
  /\ UNCHANGED << console, error, calls, processes, started, finished, attempts >>
  /\ UNCHANGED << hostVars, cleanVars, fixedVars >>

\* The loop's condition fails: the function returns
LoopExit ==
  /\ pc = "retry_loop"
  /\ ~LoopContinues
  /\ Return
  /\ console' = IF entry = "main" THEN Append(console, "DONE") ELSE console
  /\ UNCHANGED << error, calls, processes, started, exec >>
  /\ UNCHANGED << hostVars, cleanVars, retryVars, fixedVars >>

\* ------------------------------------------------------------ a second run

\* The titles, order and kinds of a list of categories.
Tree(cats) ==
  [k \in 1..Len(cats) |-> [title |-> cats[k].title, type |-> cats[k].type]]

\* A new process starts: nothing is printed, sent or started yet, and what the
\* process before it had in flight is gone. The host keeps what it holds.
StartAgain ==
  /\ run' = 2
  /\ forkResponse' = "none"
  /\ console' = << >>
  /\ error' = "none"
  /\ calls' = << >>
  /\ processes' = << >>
  /\ started' = << >>
  /\ finished' = << >>
  /\ inflight' = {}
  /\ idx' = 1
  /\ exec' = NoExec
  /\ i' = 1
  /\ attempts' = << >>
  /\ sleeps' = 0
  /\ faults' = 0
  /\ UNCHANGED << entry, argv, version, maxNumberOfUploadingAttempts >>
  /\ UNCHANGED << categories, specifications, nextSlug, exists >>

\* The run ended on an error; the same command is run again.
Rerun ==
  /\ entry = "main"
  /\ run = 1
  /\ pc = "failed"
  /\ pc' = "start"
  /\ StartAgain
  /\ UNCHANGED afterFirst

\* cleanProject has returned; it is called again.
CleanAgain ==
  /\ entry = "clean"
  /\ run = 1
  /\ pc = "cleaned"
  /\ pc' = "clean"
  /\ afterFirst' = [categories |-> Tree(categories), specifications |-> specifications]
  /\ StartAgain

\* --------------------------------------------------------------------- Spec

Next ==
  \/ Validate
  \/ createNewVersion
  \/ CleanStart
  \/ DeleteCategoryAnswered
  \/ CategoriesDeleted
  \/ CreateCategoryRequest
  \/ CreateCategoryAnswered
  \/ CategoriesCreated
  \/ UpdateCategoryAnswered
  \/ CategoriesUpdated
  \/ DeleteSpecificationAnswered
  \/ SpecificationsDeleted
  \/ uploadOpenApiFile
  \/ buildMdTables
  \/ updateMdTablesInDocs
  \/ uploadGuideFiles
  \/ UploadReferenceStart
  \/ UploadReferenceAttempt
  \/ Sleep
  \/ LoopExit

Spec == Init /\ [][Next]_vars

\* Every request is answered and every child process ends (its callback
\* runs), and the event loop runs what is due.
SpecFair == InitFair /\ [][Next]_vars /\ WF_vars(Next)

\* The script and cleanProject, each run a second time: the script when its
\* first run failed, cleanProject when its first call returned.
NextAgain ==
  \/ Validate
  \/ createNewVersion
  \/ CleanStart
  \/ DeleteCategoryAnswered
  \/ CategoriesDeleted
  \/ CreateCategoryRequest
  \/ CreateCategoryAnswered
  \/ CategoriesCreated
  \/ UpdateCategoryAnswered
  \/ CategoriesUpdated
  \/ DeleteSpecificationAnswered
  \/ SpecificationsDeleted
  \/ uploadOpenApiFile
  \/ buildMdTables
  \/ updateMdTablesInDocs
  \/ uploadGuideFiles
  \/ UploadReferenceStart
  \/ UploadReferenceAttempt
  \/ Sleep
  \/ Rerun
  \/ CleanAgain

\* The event loop runs every callback that is due, and the command is run
\* again when it has failed.
SpecAgain == InitAgain /\ [][NextAgain]_vars /\ WF_vars(NextAgain)

\* ------------------------------------------------------------------- claims

IsPrefix(a, b) == Len(a) <= Len(b) /\ SubSeq(b, 1, Len(a)) = a

\* The steps of a run in the order of main's body.
StepOrder ==
  (IF create THEN << "Fork" >> ELSE << >>)
    \o << "Clean", "UploadSpec", "BuildTables", "UpdateTables", "UploadGuides",
          "UploadReferenceDocs" >>

Valid == validateOptions(help, version, create, update).valid

\* The run sent nothing to the host and started no child process.
NoRemoteCalls == calls = << >> /\ processes = << >>

\* C1: in a run whose options pass validation the steps start in the order
\* [Fork,] Clean, UploadSpec, BuildTables, UpdateTables, UploadGuides,
\* UploadReferenceDocs; a step starts only when every step before it has
\* returned normally; Done is reached with every step run once, none skipped.
C1_StepOrder ==
  entry = "main" =>
    /\ IsPrefix(started, StepOrder)
    /\ IsPrefix(finished, started)
    /\ Len(started) <= Len(finished) + 1
    /\ pc = "done" => started = StepOrder /\ finished = StepOrder
    /\ ~Valid => started = << >>

C1_Witness == entry = "main" /\ pc = "done" /\ create /\ Len(finished) = 7

\* The category creation requests sent so far, and their titles.
IsCreation(r) == r.method = "POST" /\ r.resource = "categories"
CreationTitles ==
  LET posts == SelectSeq(calls, IsCreation) IN [k \in 1..Len(posts) |-> posts[k].body]

\* C2: a category creation request is in flight alone; the titles of the
\* creation requests follow the guide list and then the reference list, and
\* when the creation loop is over they are exactly the guide list followed by
\* the reference list.
C2_SequentialCreation ==
  /\ \A r \in inflight : IsCreation(r) => inflight = {r}
  /\ IsPrefix(CreationTitles, listOfGuideCategories \o listOfReferenceCategories)
  /\ "NEW CATEGORIES CREATED" \in SeqToSet(console) =>
       CreationTitles = listOfGuideCategories \o listOfReferenceCategories

C2_Witness ==
  /\ "NEW CATEGORIES CREATED" \in SeqToSet(console)
  /\ Len(CreationTitles) = Len(listOfGuideCategories) + Len(listOfReferenceCategories)

\* C3 (as claimed): once cleanProject has returned, a category of the version
\* is of kind reference if its title is in the reference list, and of the
\* default kind guide otherwise.
C3_KindsAfterClean ==
  "Clean" \in SeqToSet(finished) =>
    \A k \in 1..Len(categories) :
      categories[k].type =
        IF categories[k].title \in SeqToSet(listOfReferenceCategories)
        THEN "reference" ELSE "guide"

AllFailed(results) == \A k \in 1..Len(results) : ~results[k]

ReferenceUploads ==
  Len(SelectSeq(processes, LAMBDA c : c = "rdme docs ./docs/reference-docs"))

\* C4: with a budget N >= 1, when the upload fails k-1 times and succeeds the
\* k-th time (k <= N), the function returns normally after exactly k upload
\* attempts and k-1 sleeps; nothing is attempted after a success, and the
\* function does not give up before N failures.
C4_SuccessAtK ==
  LET n == Len(attempts) IN
    /\ AllFailed(SubSeq(attempts, 1, n - 1))
    /\ ReferenceUploads = n
    /\ (n >= 1 /\ attempts[n]) =>
         /\ pc \in { "done", "returned" }
         /\ error = "none"
         /\ n <= maxNumberOfUploadingAttempts
         /\ sleeps = n - 1
    /\ error = "REFERENCE DOC WERE NOT UPLOADED!" => n >= maxNumberOfUploadingAttempts

C4_Witness ==
  /\ entry = "retry"
  /\ maxNumberOfUploadingAttempts = 3
  /\ attempts = << FALSE, FALSE, TRUE >>
  /\ sleeps = 2
  /\ pc = "returned"

\* C5: with a budget N >= 1, when every upload attempt fails, the function
\* throws after exactly N attempts (N-1 sleeps), there is no attempt N+1, and
\* the run has failed: it is not, and cannot become, Done.
C5_ExhaustedBudget ==
  LET n == Len(attempts)
      N == maxNumberOfUploadingAttempts IN
    /\ N >= 1 => n <= N
    /\ (N >= 1 /\ n >= N /\ AllFailed(attempts)) =>
         /\ n = N
         /\ ReferenceUploads = N
         /\ sleeps = N - 1
         /\ pc = "failed"
         /\ error = "REFERENCE DOC WERE NOT UPLOADED!"
         /\ "DONE" \notin SeqToSet(console)
         /\ ~ENABLED Next

C5_Witness ==
  /\ entry = "main"
  /\ Len(attempts) = defaultMaxNumberOfUploadingAttempts
  /\ AllFailed(attempts)
  /\ pc = "failed"

\* The callback of uploadOpenApiFile has just run on `exec'.
AfterOpenApiCallback ==
  /\ started # << >>
  /\ started[Len(started)] = "UploadSpec"
  /\ pc \in { "build_tables", "failed" }

OpenApiUploaded == pc = "build_tables"

\* C6 (as claimed): uploadOpenApiFile succeeds on an ordinary success and on
\* an error that contains the upload-timeout text, and fails on every other
\* error, whatever the tool printed.
C6_OpenApiOutcome ==
  AfterOpenApiCallback =>
    /\ (exec.error = null /\ exec.stdout # << >>) => OpenApiUploaded
    /\ Includes(exec.error, TimeoutText) => OpenApiUploaded
    /\ (exec.error # null /\ ~Includes(exec.error, TimeoutText)) => ~OpenApiUploaded

\* The identifier the flags name: the value of --version/-v when it is given,
\* else the base version name, "-" and the tag.
NamedVersion ==
  IF Truthy(versionOptionOf(argv)) THEN versionOptionOf(argv)
  ELSE mainVersion \o "-" \o versionTagOf(argv)

\* C7 (as claimed): every request of the run carries the identifier the flags
\* name: --version/-v unchanged when it is given, the base version name
\* followed by "-" and the tag when only --versionTag/-vt is given.
C7_VersionIdentifier ==
  entry = "main" =>
    \A k \in 1..Len(calls) :
      /\ calls[k].version # undefined => calls[k].version = NamedVersion
      /\ calls[k].resource = "version" => calls[k].body = NamedVersion

Validated == entry = "main" /\ pc # "start"

\* C8 (as claimed): with both create and update, whatever the other flags,
\* nothing is sent and the conflicting-arguments error is reported.
C8_ConflictAlways ==
  (Validated /\ create /\ update) =>
    /\ NoRemoteCalls
    /\ console = << "conflicting update and create" >>

\* C8 (amended): with both create and update nothing is sent, whatever the
\* other flags; what is reported is the conflicting-arguments error when help
\* is not given and a version or versionTag is, the usage text when help is
\* given, and the missing-version error when help is not given and neither
\* version nor versionTag is.
C8_Conflict ==
  (Validated /\ create /\ update) =>
    /\ pc = "exit"
    /\ NoRemoteCalls
    /\ started = << >>
    /\ console =
         IF help THEN << "usage" >>
         ELSE IF ~Truthy(version) THEN << "missing version" >>
         ELSE << "conflicting update and create" >>

C8_Witness ==
  /\ Validated /\ create /\ update /\ ~help /\ Truthy(version)
  /\ console = << "conflicting update and create" >>

VersionOrTagGiven == Truthy(versionOptionOf(argv)) \/ Truthy(versionTagOf(argv))

\* C9 (as claimed): with neither version nor versionTag, whatever create and
\* update are, nothing is sent and the usage text is printed.
C9_UsageAlways ==
  (Validated /\ ~VersionOrTagGiven) =>
    /\ NoRemoteCalls
    /\ console = << "usage" >>

\* C9 (amended): with neither version nor versionTag nothing is sent; the
\* usage text is printed when help is given or neither create nor update is,
\* and otherwise the missing-version error (which names the help flag) is
\* printed instead of the usage text.
C9_MissingVersion ==
  (Validated /\ ~VersionOrTagGiven) =>
    /\ pc = "exit"
    /\ NoRemoteCalls
    /\ started = << >>
    /\ console =
         IF help \/ (~create /\ ~update) THEN << "usage" >>
         ELSE << "missing version" >>

C9_Witness ==
  /\ Validated /\ ~VersionOrTagGiven /\ create /\ ~help
  /\ console = << "missing version" >>

ExactlyOneOfCreateUpdate == create # update

ExactlyOneOfVersionTag ==
  Truthy(versionOptionOf(argv)) # Truthy(versionTagOf(argv))

\* C10 (as claimed): the run gets past validation only with exactly one of
\* version/versionTag and exactly one of create/update.
C10_ExactlyOne ==
  (Validated /\ pc # "exit") => ExactlyOneOfVersionTag /\ ExactlyOneOfCreateUpdate

\* C10 (amended): the run gets past validation if and only if help is not
\* given, at least one of version/versionTag is given (both may be) and
\* exactly one of create/update is; in every other combination it ends with
\* one message printed and nothing sent.
C10_PastValidation ==
  Validated =>
    /\ pc # "exit" <=> (~help /\ VersionOrTagGiven /\ ExactlyOneOfCreateUpdate)
    /\ pc = "exit" => NoRemoteCalls /\ started = << >> /\ Len(console) = 1

C10_Witness ==
  /\ Validated /\ pc # "exit"
  /\ Truthy(versionOptionOf(argv)) /\ Truthy(versionTagOf(argv))
  /\ calls # << >>

\* The host holds what it held before the run, and nothing is on its way to it.
HostUntouched ==
  /\ categories \in InitialCategories
  /\ specifications \in InitialSpecifications
  /\ nextSlug = 3
  /\ faults = 0
  /\ inflight = {}
  /\ forkResponse = "none"

\* C11: when help is given, whatever the other flags are, the run prints the
\* usage text and ends: it sends no request, starts no child process, starts
\* no step, leaves the host as it was, and has nothing left to do.
C11_HelpNoSideEffects ==
  (Validated /\ help) =>
    /\ pc = "exit"
    /\ console = << "usage" >>
    /\ error = "none"
    /\ NoRemoteCalls
    /\ started = << >>
    /\ HostUntouched
    /\ ~ENABLED Next

\* help together with flags that would otherwise pass validation
C11_Witness ==
  /\ Validated /\ help
  /\ Truthy(version) /\ create /\ ~update
  /\ console = << "usage" >>

\* The fork requests sent so far.
IsFork(r) == r.method = "POST" /\ r.resource = "version"
ForkCalls == SelectSeq(calls, IsFork)

\* C12: createNewVersion sends exactly one fork request; when the host answers
\* it with a status other than 200 (or does not answer), the fork fails, no
\* second fork request is sent, and the run has ended: the fork request is
\* the only request, no child process was started, no step after Fork was
\* started, and nothing can follow.
C12_ForkFatal ==
  /\ Len(ForkCalls) <= 1
  /\ "Fork" \in SeqToSet(started) => Len(ForkCalls) = 1
  /\ forkResponse \in { "status", "rejected" } =>
       /\ pc = "failed"
       /\ error = (IF forkResponse = "status" THEN "Response status" ELSE "fetch failed")
       /\ started = << "Fork" >>
       /\ finished = << >>
       /\ Len(calls) = 1
       /\ processes = << >>
       /\ "DONE" \notin SeqToSet(console)
       /\ ~ENABLED Next

C12_Witness ==
  /\ create
  /\ forkResponse = "status"
  /\ pc = "failed"
  /\ calls = << Call("POST", "version", undefined, 0, TemplateString(version)) >>

\* The run got past validation and past createNewVersion, if it had to call it.
PastFork == entry = "main" /\ pc \notin { "start", "exit", "fork" }

\* C13: a run that passes validation sends a fork request (POST /version) if
\* and only if create is set. With update it sends none and its first step is
\* Clean. With create the fork request is the first request and the only fork
\* request, and the first request of Clean is sent only after the fork was
\* answered with success and createNewVersion returned.
C13_ForkIffCreate ==
  /\ ~create => ForkCalls = << >>
  /\ PastFork => (Len(ForkCalls) = 1 <=> create)
  /\ (PastFork /\ update) => (started # << >> => started[1] = "Clean")
  /\ (create /\ calls # << >>) =>
       /\ IsFork(calls[1])
       /\ \A k \in 2..Len(calls) : ~IsFork(calls[k])
       /\ started[1] = "Fork"
  /\ (create /\ Len(calls) >= 2) =>
       /\ forkResponse = "ok"
       /\ finished # << >> /\ finished[1] = "Fork"
       /\ "FORK CREATED" \in SeqToSet(console)

C13_Witness ==
  /\ create
  /\ Len(calls) >= 2
  /\ IsFork(calls[1])
  /\ calls[2] = Call("GET", "categories", version, 0, "")

LastStarted == IF started = << >> THEN "none" ELSE started[Len(started)]

\* The callback of the child process of `step' has just run on `exec'.
JustRan(step, next) ==
  entry = "main" /\ LastStarted = step /\ pc \in { next, "failed" }

\* The child process ended with an error other than the tolerated timeout.
ToolFailed == exec.error # null /\ ~Includes(exec.error, TimeoutText)

\* The run has ended on an error and nothing follows: no later step, no
\* request, no DONE.
Halted ==
  /\ pc = "failed"
  /\ error # "none"
  /\ "DONE" \notin SeqToSet(console)
  /\ ~ENABLED Next

\* C14 (as claimed): when a step fails (the fork is refused, the
\* specification upload ends with an error other than the tolerated timeout,
\* the table build or the table update ends with an error, the guide upload
\* does not report success, the reference upload uses up its attempts), the
\* run halts there: no later step starts, Done is not reached, nothing more
\* is sent.
C14_FailureHalts ==
  entry = "main" =>
    /\ forkResponse \in { "status", "rejected" } => Halted
    /\ (JustRan("UploadSpec", "build_tables") /\ ToolFailed) => Halted
    /\ (JustRan("BuildTables", "update_tables") /\ exec.error # null) => Halted
    /\ (JustRan("UpdateTables", "upload_guides") /\ exec.error # null) => Halted
    /\ (JustRan("UploadGuides", "upload_reference")
          /\ ~Includes(exec.stdout, SuccessText)) => Halted
    /\ (Len(attempts) >= maxNumberOfUploadingAttempts /\ AllFailed(attempts)) => Halted

IsCategoryDelete(r) == r.method = "DELETE" /\ r.resource = "categories"
IsCategoryUpdate(r) == r.method = "PUT" /\ r.resource = "categories"
IsSpecificationDelete(r) == r.method = "DELETE" /\ r.resource = "api-specification"
IsSpecificationListing(r) == r.method = "GET" /\ r.resource = "api-specification"

\* C19: every batch of concurrent requests is joined before the run goes on:
\* no category creation request is sent while a category delete is
\* unanswered, the specifications are not listed while a type update is
\* unanswered, and the specification upload does not start while a
\* specification delete is unanswered.
C19_BatchesJoined ==
  /\ CreationTitles # << >> => \A r \in inflight : ~IsCategoryDelete(r)
  /\ SelectSeq(calls, IsSpecificationListing) # << >> =>
       \A r \in inflight : ~IsCategoryUpdate(r)
  /\ ("UploadSpec" \in SeqToSet(started) \/ processes # << >>) =>
       \A r \in inflight : ~IsSpecificationDelete(r)
  /\ "Clean" \in SeqToSet(finished) => inflight = {}

\* both delete batches held two requests, and the upload has started
C19_Witness ==
  /\ Len(SelectSeq(calls, IsCategoryDelete)) = 2
  /\ Len(SelectSeq(calls, IsSpecificationDelete)) = 2
  /\ CreationTitles # << >>
  /\ "UploadSpec" \in SeqToSet(started)

\* An upload attempt has just ended, and the tool reported on stderr that the
\* category was not found.
CategoryNotFound ==
  /\ attempts # << >>
  /\ pc # "retry_loop"
  /\ Includes(exec.stderr, CategoryNotFoundText)

\* C20: an upload attempt of the reference docs on which the tool reports
\* "category not found" is a failed attempt, whatever the tool printed to
\* stdout, and it is not fatal while attempts remain: the run sleeps once,
\* and after the sleep the next attempt is made; on the last attempt of the
\* budget it is fatal.
C20_CategoryNotFoundRetried ==
  LET n == Len(attempts) IN
    /\ CategoryNotFound =>
         /\ ~attempts[n]
         /\ n < maxNumberOfUploadingAttempts =>
              pc = "sleep" /\ error = "none" /\ sleeps = n - 1 /\ ENABLED Sleep
         /\ n >= maxNumberOfUploadingAttempts => pc = "failed"
    /\ (pc = "retry_loop" /\ n >= 1) =>
         /\ sleeps = n
         /\ i = n + 1
         /\ ENABLED UploadReferenceAttempt

\* the second attempt ended with "category not found" next to the tool's
\* success text, and the run is about to sleep again
C20_Witness ==
  /\ entry = "main"
  /\ pc = "sleep"
  /\ CategoryNotFound
  /\ Includes(exec.stdout, SuccessText)
  /\ Len(attempts) = 2
  /\ sleeps = 1

\* C17 (as claimed): cleanProject deletes every specification of the version,
\* so that once uploadOpenApiFile has returned normally the version holds at
\* most one specification, however many it held before the run.
C17_AtMostOneSpecification ==
  "UploadSpec" \in SeqToSet(finished) => Cardinality(specifications) <= 1

Titles(cats) == [k \in 1..Len(cats) |-> cats[k].title]

\* C18 (as claimed): once cleanProject has returned, no category from before
\* the run is left (the slugs below 3 are theirs): the version's categories
\* are the guide list followed by the reference list, and nothing else.
C18_CategoriesAfterClean ==
  "Clean" \in SeqToSet(finished) =>
    /\ Titles(categories) = listOfGuideCategories \o listOfReferenceCategories
    /\ \A k \in 1..Len(categories) : categories[k].slug >= 3

\* cleanProject has returned from its second call.
CleanedTwice == entry = "clean" /\ run = 2 /\ pc = "cleaned"

\* C15 (as claimed): whatever the version held, a second call of cleanProject
\* right after the first leaves the category tree (titles, order, kinds) and
\* the set of specifications as the first call left them, the set of
\* specifications being empty.
C15_CleanIdempotent ==
  CleanedTwice =>
    /\ Tree(categories) = afterFirst.categories
    /\ specifications = afterFirst.specifications
    /\ specifications = {}

\* The script is running again after a failed run.
SecondRun == entry = "main" /\ run = 2

\* The second run has --create and the version exists without this run
\* having forked it: the failed run's fork had succeeded.
ForkLeftBehind == SecondRun /\ create /\ exists /\ forkResponse # "ok"

\* C16 (as claimed): when a run has failed at any step and the same command
\* is run again on a host that then behaves, the second run is not blocked
\* by what the failed run left behind: it does not end on an error.
C16_RerunNeverBlocked == SecondRun => pc # "failed"

\* C16 (amended): when a run has failed and the same command is run again on
\* a host that then behaves, the second run does not fail and reaches Done,
\* whatever categories and specifications the failed run left behind, if the
\* command has --update, or has --create and the failed run's fork had not
\* succeeded. With --create after a fork that had succeeded, the second run
\* is refused at the fork (the version exists) and ends there, with the fork
\* request as its only request.
C16_RerunRecovers ==
  /\ []((SecondRun /\ ~ForkLeftBehind) => pc # "failed")
  /\ []((SecondRun /\ ~ForkLeftBehind) => <>(pc = "done"))
  /\ [](ForkLeftBehind =>
          /\ pc \in { "start", "fork", "failed" }
          /\ Len(calls) <= 1
          /\ processes = << >>
          /\ pc = "failed" => error = "Response status")
  /\ [](ForkLeftBehind => <>(pc = "failed"))

\* a second run that found categories the failed run had created, deleted
\* them and reached Done
C16_Witness ==
  /\ SecondRun
  /\ pc = "done"
  /\ \E k \in 1..Len(calls) : IsCategoryDelete(calls[k]) /\ calls[k].target >= 3

\* A request that reads or writes a category or a specification.
TouchesVersion(r) == r.resource \in { "categories", "api-specification" }

\* C21 (as claimed): every request of the run that reads or writes a category
\* or a specification is scoped to the version the flags name: it carries
\* that identifier, or (the delete of a specification, which carries none)
\* it names a specification that a listing carrying that identifier returned.
C21_ScopedToVersion ==
  entry = "main" =>
    \A k \in 1..Len(calls) :
      TouchesVersion(calls[k]) =>
        \/ calls[k].version = NamedVersion
        \/ /\ IsSpecificationDelete(calls[k])
           /\ \E j \in 1..(k - 1) :
                IsSpecificationListing(calls[j]) /\ calls[j].version = NamedVersion

GuideUploads ==
  Len(SelectSeq(processes, LAMBDA c : c = "rdme docs ./docs/guides"))

\* C22: uploadGuideFiles returns normally if and only if the tool's stdout
\* contains the success text. When it does not, the run ends there on the
\* guide upload's error: the guide upload was started once and is not started
\* again, and no upload of the reference docs is ever attempted.
C22_GuideUpload ==
  /\ GuideUploads <= 1
  /\ JustRan("UploadGuides", "upload_reference") =>
       /\ GuideUploads = 1
       /\ pc = "upload_reference" <=> Includes(exec.stdout, SuccessText)
       /\ "UploadGuides" \in SeqToSet(finished) <=> Includes(exec.stdout, SuccessText)
       /\ ~Includes(exec.stdout, SuccessText) =>
            /\ pc = "failed"
            /\ error = "GUIDES DOC WERE NOT UPLOADED!"
            /\ ~ENABLED Next
  /\ error = "GUIDES DOC WERE NOT UPLOADED!" =>
       /\ ReferenceUploads = 0
       /\ attempts = << >>
       /\ "UploadReferenceDocs" \notin SeqToSet(started)

\* the tool printed something, but not the success text
C22_Witness ==
  /\ JustRan("UploadGuides", "upload_reference")
  /\ exec.stdout = << "successfully", "validated" >>
  /\ pc = "failed"

\* A delete of a category was sent and answered, and the category is still
\* there: the request failed (an error status, or a rejected fetch).
CategoryDeleteFailed ==
  \E r \in SeqToSet(calls) :
    /\ IsCategoryDelete(r)
    /\ r \notin inflight
    /\ \E k \in 1..Len(categories) : categories[k].slug = r.target

\* The same of a specification, while cleanProject is the last step started.
SpecificationDeleteFailed ==
  \E r \in SeqToSet(calls) :
    /\ IsSpecificationDelete(r)
    /\ r \notin inflight
    /\ r.target \in specifications

\* cleanProject is at its first batch: no creation was sent yet.
CategoryDeletePhase ==
  /\ LastStarted = "Clean"
  /\ CreationTitles = << >>
  /\ "OLD CATEGORIES DELETED" \notin SeqToSet(console)

\* C23 (as claimed): a category delete that fails does not fail the clean
\* step: cleanProject does not end on it.
C23_DeleteFailureIgnored ==
  (CategoryDeletePhase /\ CategoryDeleteFailed) => pc # "failed"

\* C23 (amended): a category delete that the host answers with an error
\* status does not fail the clean step: cleanProject waits for the rest of
\* the batch and goes on to the creation, and it can return with the category
\* still there. A category delete whose fetch is rejected (no answer) does
\* fail it: the run ends there with that error and creates nothing. The same
\* holds of a specification delete and the return of cleanProject.
C23_DeleteStatusIgnored ==
  /\ (CategoryDeletePhase /\ CategoryDeleteFailed) =>
       IF error = "none"
       THEN /\ pc = "delete_categories"
            /\ faults >= 1
            /\ AllAnswered => ENABLED CategoriesDeleted
       ELSE /\ pc = "failed"
            /\ error = "fetch failed"
            /\ ~ENABLED Next
  /\ (LastStarted = "Clean" /\ CategoryDeleteFailed /\ error # "fetch failed") =>
       faults >= 1
  /\ (LastStarted = "Clean" /\ SpecificationDeleteFailed) =>
       IF error = "none"
       THEN /\ pc \in { "delete_specifications", "upload_openapi" }
            /\ faults >= 1
            /\ (pc = "delete_specifications" /\ AllAnswered) =>
                 ENABLED SpecificationsDeleted
       ELSE /\ pc = "failed"
            /\ error = "fetch failed"
            /\ ~ENABLED Next

\* cleanProject returned although a delete of a category had failed
C23_Witness ==
  /\ "Clean" \in SeqToSet(finished)
  /\ LastStarted = "Clean"
  /\ CategoryDeleteFailed
  /\ Len(CreationTitles) = Len(categoriesToCreate)

\* C24 (as claimed): whatever the attempt budget is, zero and negative
\* budgets included, uploadReferenceDocsWithMaxNumberOfAttempts returns
\* normally only if one of its upload attempts reported success.
C24_ReturnsOnlyOnSuccess ==
  pc \in { "returned", "done" } => \E k \in 1..Len(attempts) : attempts[k]

\* The deletes of specifications sent so far.
SpecificationDeletes == SelectSeq(calls, IsSpecificationDelete)

\* The listing of the specifications was answered and cleanProject has sent
\* its deletes; nothing has added a specification since.
SpecificationsListed ==
  /\ LastStarted = "Clean"
  /\ pc \in { "delete_specifications", "upload_openapi", "cleaned" }

\* C25 (as claimed): for every specification the listing returned,
\* cleanProject sends exactly one delete addressed to that specification's
\* id (so every specification still there was addressed once), and sends no
\* delete addressed to anything but an id of the version's specifications.
C25_OneDeletePerSpecification ==
  SpecificationsListed =>
    /\ \A id \in specifications :
         Len(SelectSeq(SpecificationDeletes, LAMBDA r : r.target = id)) = 1
    /\ \A k \in 1..Len(SpecificationDeletes) :
         /\ SpecificationDeletes[k].target \in UNION InitialSpecifications
         /\ \A j \in 1..(k - 1) :
              SpecificationDeletes[j].target # SpecificationDeletes[k].target

\* C26 (as claimed): the run gets from a step to the next, and in the end to
\* Done, only when the step reported success: the fork was answered with
\* 200, the specification upload ended without an error or with the tolerated
\* timeout, each table step printed something, the guide upload printed the
\* success text, and the last upload attempt of the reference docs printed it.
C26_DoneOnlyOnSuccess ==
  [][entry = "main" =>
       /\ (pc = "fork" /\ pc' = "clean") => forkResponse' = "ok"
       /\ (pc = "upload_openapi" /\ pc' = "build_tables") =>
            (exec'.error = null \/ Includes(exec'.error, TimeoutText))
       /\ (pc = "build_tables" /\ pc' = "update_tables") => exec'.stdout # << >>
       /\ (pc = "update_tables" /\ pc' = "upload_guides") => exec'.stdout # << >>
       /\ (pc = "upload_guides" /\ pc' = "upload_reference") =>
            Includes(exec'.stdout, SuccessText)
       /\ (pc # "done" /\ pc' = "done") =>
            /\ Includes(exec'.stdout, SuccessText)
            /\ finished' = StepOrder]_vars

\* The kind updates sent so far, and the listings of the categories.
KindUpdates == SelectSeq(calls, IsCategoryUpdate)
CategoryListings ==
  SelectSeq(calls, LAMBDA r : r.method = "GET" /\ r.resource = "categories")

\* cleanProject has its second listing of the categories.
Refetched ==
  /\ Len(CategoryListings) = 2
  /\ error # "categories were not listed"

HasTitle(title) == \E j \in 1..Len(categories) : categories[j].title = title

\* C27: once cleanProject has listed the categories again, it has sent for
\* each title of the reference list exactly one kind update, addressed to
\* the slug of a category that has this title, provided every title of the
\* list has a category; when one has none (its creation was refused and
\* nobody noticed), cleanProject throws there: the run ends without
\* completing Clean.
C27_KindUpdates ==
  /\ Len(KindUpdates) <= Len(listOfReferenceCategories)
  /\ ~Refetched => KindUpdates = << >>
  /\ \A k \in 1..Len(KindUpdates) :
       /\ KindUpdates[k].body = "reference"
       /\ \E j \in 1..Len(categories) :
            /\ categories[j].slug = KindUpdates[k].target
            /\ categories[j].title \in SeqToSet(listOfReferenceCategories)
  /\ (Refetched /\ \A t \in SeqToSet(listOfReferenceCategories) : HasTitle(t)) =>
       /\ Len(KindUpdates) = Len(listOfReferenceCategories)
       /\ \A k \in 1..Len(KindUpdates) :
            \E j \in 1..Len(categories) :
              /\ categories[j].slug = KindUpdates[k].target
              /\ categories[j].title = listOfReferenceCategories[k]
       /\ error # "TypeError: Cannot read properties of undefined"
  /\ (Refetched /\ \E t \in SeqToSet(listOfReferenceCategories) : ~HasTitle(t)) =>
       /\ pc = "failed"
       /\ error = "TypeError: Cannot read properties of undefined"
       /\ "Clean" \notin SeqToSet(finished)
       /\ processes = << >>
       /\ ~ENABLED Next

\* the creation of the reference category was refused, and cleanProject threw
C27_Witness ==
  /\ Refetched
  /\ ~HasTitle("Introduction")
  /\ Len(CreationTitles) = Len(categoriesToCreate)
  /\ pc = "failed"

\* An upload attempt of the reference docs has just ended, on `exec'.
AfterAttempt == attempts # << >> /\ pc # "retry_loop"

\* C28: an upload attempt of the reference docs is a success if and only if
\* the tool's stdout contains the success text and its stderr does not
\* contain the "category not found" text. Every other outcome is a failed
\* attempt, followed by one sleep and the next attempt whatever its cause
\* was; the run ends on it only when it was the last attempt of the budget.
C28_AttemptOutcome ==
  LET n == Len(attempts) IN
    /\ AfterAttempt =>
         /\ attempts[n] <=>
              (Includes(exec.stdout, SuccessText)
                 /\ ~Includes(exec.stderr, CategoryNotFoundText))
         /\ attempts[n] => pc \in { "done", "returned" }
         /\ (~attempts[n] /\ n < maxNumberOfUploadingAttempts) =>
              /\ pc = "sleep"
              /\ error = "none"
              /\ ENABLED Sleep
         /\ (~attempts[n] /\ n >= maxNumberOfUploadingAttempts) =>
              /\ pc = "failed"
              /\ error = "REFERENCE DOC WERE NOT UPLOADED!"
    /\ error = "REFERENCE DOC WERE NOT UPLOADED!" =>
         n = maxNumberOfUploadingAttempts /\ AllFailed(attempts)

\* an attempt failed on something else than "category not found", and the
\* run is about to sleep
C28_Witness ==
  /\ AfterAttempt
  /\ pc = "sleep"
  /\ exec.stderr = << "Error uploading:", "Unauthorized" >>
  /\ Includes(exec.stdout, SuccessText) = FALSE
  /\ Len(attempts) = 1

\* The run is over: Done (for the retry function called directly, its
\* return), a fatal failure, or the exit after a message of validateOptions.
Terminated == pc \in { "done", "returned", "failed", "exit" }

\* What is left to do, at most.
AttemptsLeft ==
  IF maxNumberOfUploadingAttempts >= 1 THEN maxNumberOfUploadingAttempts ELSE 0

\* C29: when every request is answered and every child process ends, every
\* run terminates, in Done or in a fatal failure (or, before any step, in the
\* exit after a usage message): nothing is waited for forever, the run does
\* nothing once it is over, and the retry loop makes no more attempts than
\* its budget and sleeps fewer times than that.
C29_Terminates ==
  /\ [](Len(attempts) <= AttemptsLeft /\ sleeps <= AttemptsLeft)
  /\ [](Terminated => ~ENABLED Next)
  /\ [](~Terminated => ENABLED Next)
  /\ <>Terminated

\* a run that went all the way through the retry loop before it ended
C29_Witness ==
  /\ entry = "main"
  /\ Terminated
  /\ Len(attempts) = defaultMaxNumberOfUploadingAttempts
  /\ sleeps = defaultMaxNumberOfUploadingAttempts - 1

====
